---- MODULE Spec2Model ----
(***************************************************************************)
(* A model of the parallel variant of the 1 billion row challenge program  *)
(* (src/main.go, lines 263-592): the chunker, the worker goroutines        *)
(* running processData, the join, mergeHashTables and the extraction of    *)
(* the populated items, together with the pure functions they use          *)
(* (bytesToFixedPointInt, the FNV hash, the open-addressed hash table).    *)
(*                                                                         *)
(* Bytes are their integer codes.  Go indexes from 0 and TLA+ sequences    *)
(* from 1: At(d, i) is d[i] of the source.  A 64-bit hash is a sequence of *)
(* eight base-256 limbs, least significant first, so that the arithmetic   *)
(* modulo 2^64 of the source is computed exactly.  A stats pointer is a    *)
(* reference <<owner, n>> into the arena of the goroutine that allocated   *)
(* the object; NilRef is the nil pointer.                                  *)
(***************************************************************************)
EXTENDS Integers, Sequences, FiniteSets, TLC

VARIABLES
    recs,        \* the records the input file was written from (ground truth)
    data,        \* the mapped file: a sequence of bytes
    numWorkers,  \* runtime.NumCPU()
    pc,          \* position of the main goroutine in process
    loopI,       \* the chunker loop's i
    blockStart,  \* the chunker loop's blockStart
    ranges,      \* the (blockStart, blockEnd) pairs handed to the goroutines
    wpc,         \* position of each worker goroutine
    wst,         \* each worker's locals in processData: i, start, endPos, hash, res
    results,     \* the results slice: a table per worker, NilRef until it returns
    heap,        \* the stats objects, one arena per goroutine (numWorkers: main)
    res,         \* mergeHashTables' res
    mergeT,      \* mergeHashTables: index of the table being folded
    mergeS,      \* mergeHashTables: next slot of that table to visit
    populated,   \* the sorted populated items
    dec,         \* decoder run: the field, and the result once decoded
    agg,         \* aggregate run: one station's aggregates in two workers and merged
    tbl,         \* hash table run: one table, and the outcome of the last call
    fb           \* findByte run: the arguments, and the two results

vars == <<recs, data, numWorkers, pc, loopI, blockStart, ranges, wpc, wst,
          results, heap, res, mergeT, mergeS, populated, dec, agg, tbl, fb>>

(***************************************************************************)
(* Bounds of the model.                                                    *)
(***************************************************************************)
MaxRecs == 3
MaxWorkers == 3
MaxAggSteps == 3

(***************************************************************************)
(* Byte codes used by the source.                                          *)
(***************************************************************************)
Semicolon == 59
Newline == 10
Minus == 45
Dot == 46
Zero == 48

NilRef == <<>>

At(d, i) == d[i + 1]

\* d[lo:hi] of the source, for 0 <= lo <= hi <= len(d)
Slice(d, lo, hi) == SubSeq(d, lo + 1, hi)

(***************************************************************************)
(* int32 arithmetic.  The sum of two int32 values wraps modulo 2^32; the   *)
(* wrap is computed without leaving the int32 range.                       *)
(***************************************************************************)
MaxInt32 == 2147483647

Add32(a, b) ==
    IF b > 0 /\ a > MaxInt32 - b THEN (a - MaxInt32 - 1) + (b - MaxInt32 - 1)
    ELSE IF b < 0 /\ a < (0 - MaxInt32 - 1) - b THEN (a + MaxInt32 + 1) + (b + MaxInt32 + 1)
    ELSE a + b

min(a, b) == IF a < b THEN a ELSE b

max(a, b) == IF a > b THEN a ELSE b

(***************************************************************************)
(* The FNV hash on uint64, in eight base-256 limbs.                        *)
(***************************************************************************)
Limbs == 8
Base == 256

\* 14695981039346656037 = 0xCBF29CE484222325
fnvOffset == <<37, 35, 34, 132, 228, 156, 242, 203>>

\* 1099511628211 = 0x00000100000001B3
fnvPrime == <<179, 1, 0, 0, 0, 1, 0, 0>>

newFnvHash == fnvOffset

RECURSIVE Xor8(_, _, _)
Xor8(a, b, bits) ==
    IF bits = 0 THEN 0
    ELSE ((a + b) % 2) + 2 * Xor8(a \div 2, b \div 2, bits - 1)

RECURSIVE ConvSum(_, _, _, _)
\* sum of a[j] * b[k + 1 - j] for j in 1..upto: column k of the product a * b
ConvSum(a, b, k, upto) ==
    IF upto = 0 THEN 0
    ELSE a[upto] * b[k + 1 - upto] + ConvSum(a, b, k, upto - 1)

RECURSIVE MulCarry(_, _, _, _)
\* the limbs k..Limbs of a * b modulo 2^64, given the carry into column k
MulCarry(a, b, k, carry) ==
    IF k > Limbs THEN <<>>
    ELSE LET col == ConvSum(a, b, k, k) + carry
         IN <<col % Base>> \o MulCarry(a, b, k + 1, col \div Base)

Mul64(a, b) == MulCarry(a, b, 1, 0)

hashByte(h, b) ==
    LET m == Mul64(h, fnvPrime)
    IN [m EXCEPT ![1] = Xor8(m[1], b, 8)]

RECURSIVE HashModFrom(_, _, _, _)
HashModFrom(h, n, k, acc) ==
    IF k = 0 THEN acc
    ELSE HashModFrom(h, n, k - 1, (acc * Base + h[k]) % n)

\* hash % n on uint64, for n below 2^23
HashMod(h, n) == HashModFrom(h, n, Limbs, 0)

(***************************************************************************)
(* bytesToFixedPointInt.  Indexing a slice at or past its length panics;   *)
(* last is the greatest index the function has read.  The digit value is   *)
(* the uint8 difference bytes[idx] - '0'.                                  *)
(***************************************************************************)
Digit(b) == (b - Zero + Base) % Base

applySignDropped(negative, val) == val

applySign(negative, val) == IF negative THEN 0 - val ELSE val

bytesToFixedPointInt(bytes) ==
    LET n == Len(bytes)
        bad(last) == [panic |-> TRUE, val |-> 0, last |-> last]
    IN  IF n < 1 THEN bad(0)
        ELSE
        LET negative == At(bytes, 0) = Minus
            idx0 == IF negative THEN 1 ELSE 0
        IN  IF idx0 >= n THEN bad(idx0)
            ELSE
            LET val0 == Digit(At(bytes, idx0))
                idx1 == idx0 + 1
            IN  IF idx1 >= n THEN bad(idx1)
                ELSE
                LET two == At(bytes, idx1) # Dot
                    val1 == IF two THEN val0 * 10 + Digit(At(bytes, idx1)) ELSE val0
                    idx2 == IF two THEN idx1 + 1 ELSE idx1
                    idx3 == idx2 + 1
                IN  IF idx3 >= n THEN bad(idx3)
                    ELSE [panic |-> FALSE,
                          val |-> applySign(negative, val1 * 10 + Digit(At(bytes, idx3))),
                          last |-> idx3]

(***************************************************************************)
(* The hash table.  items is a function from the populated slot indices to *)
(* their items; every other slot of the len slots holds the zero item.     *)
(***************************************************************************)
NumBuckets == 65536

\* the slots of the merge table: 1 << 16 as well
MergeBuckets == 65536

ZeroItem == [hash |-> <<0, 0, 0, 0, 0, 0, 0, 0>>, key |-> <<>>, value |-> NilRef]

NewHashTable(numBuckets) == [len |-> numBuckets, items |-> <<>>, size |-> 0]

Slot(ht, index) == IF index \in DOMAIN ht.items THEN ht.items[index] ELSE ZeroItem

SetSlot(ht, index, it) ==
    [ht EXCEPT !.items = [j \in (DOMAIN ht.items) \cup {index} |->
                             IF j = index THEN it ELSE ht.items[j]]]

\* a comparison under which no key is equal to another
keysNeverEqual(a, b) == FALSE

\* bytes.Equal
keysEqual(a, b) == a = b

\* a probe that skips every other slot
nextIndexSkip(index, n) == (index + 2) % n

\* index = (index + 1) % uint64(len(ht.items))
nextIndex(index, n) == (index + 1) % n

\* a claim of the empty slot that counts it twice
insertAtTwice(ht, index, it) == [SetSlot(ht, index, it) EXCEPT !.size = ht.size + 2]

\* ht.items[index] = item{...}; ht.size++
insertAt(ht, index, it) == [SetSlot(ht, index, it) EXCEPT !.size = ht.size + 1]

\* a return from add on a full table as if the key had been stored
tableFullDropped(ht) == [full |-> FALSE, ht |-> ht]

\* panic("Hashtable is full"): the table is as it was
tableFull(ht) == [full |-> TRUE, ht |-> ht]

RECURSIVE addProbe(_, _, _, _, _, _)
addProbe(ht, index, originalIndex, hash, key, v) ==
    IF Slot(ht, index).value = NilRef
    THEN [full |-> FALSE,
          ht |-> insertAt(ht, index, [hash |-> hash, key |-> key, value |-> v])]
    ELSE IF keysEqual(Slot(ht, index).key, key)
    THEN [full |-> FALSE,
          ht |-> SetSlot(ht, index, [Slot(ht, index) EXCEPT !.value = v])]
    ELSE LET next == nextIndex(index, ht.len)
         IN  IF next = originalIndex THEN tableFull(ht)
             ELSE addProbe(ht, next, originalIndex, hash, key, v)

add(ht, hash, key, v) ==
    addProbe(ht, HashMod(hash, ht.len), HashMod(hash, ht.len), hash, key, v)

RECURSIVE getProbe(_, _, _, _)
getProbe(ht, index, originalIndex, key) ==
    IF Slot(ht, index).value = NilRef THEN NilRef
    ELSE IF keysEqual(Slot(ht, index).key, key) THEN Slot(ht, index).value
    ELSE LET next == nextIndex(index, ht.len)
         IN  IF next = originalIndex THEN NilRef
             ELSE getProbe(ht, next, originalIndex, key)

get(ht, hash, key) == getProbe(ht, HashMod(hash, ht.len), HashMod(hash, ht.len), key)

\* the loop that get and add share, with the slot it ends at, the number of
\* times it advanced the index, and why it ended
RECURSIVE probeFrom(_, _, _, _, _)
probeFrom(ht, index, originalIndex, key, steps) ==
    IF Slot(ht, index).value = NilRef
    THEN [at |-> "empty", index |-> index, steps |-> steps]
    ELSE IF keysEqual(Slot(ht, index).key, key)
    THEN [at |-> "key", index |-> index, steps |-> steps]
    ELSE LET next == nextIndex(index, ht.len)
         IN  IF next = originalIndex
             THEN [at |-> "wrapped", index |-> next, steps |-> steps + 1]
             ELSE probeFrom(ht, next, originalIndex, key, steps + 1)

probe(ht, hash, key) ==
    probeFrom(ht, HashMod(hash, ht.len), HashMod(hash, ht.len), key, 0)

(***************************************************************************)
(* The stats objects.  hp is the heap: a function from goroutine to the    *)
(* sequence of the objects it has allocated.                               *)
(***************************************************************************)
Deref(hp, ref) == hp[ref[1]][ref[2]]

Alloc(hp, owner, s) == [hp EXCEPT ![owner] = Append(hp[owner], s)]

LastRef(hp, owner) == <<owner, Len(hp[owner])>>

Store(hp, ref, s) == [hp EXCEPT ![ref[1]][ref[2]] = s]

newStats(temp) == [min |-> temp, max |-> temp, sum |-> temp, count |-> 1]

updateStatsKeepSum(s, temp) ==
    [min |-> min(s.min, temp), max |-> max(s.max, temp),
     sum |-> s.sum, count |-> s.count + 1]

updateStats(s, temp) ==
    [min |-> min(s.min, temp), max |-> max(s.max, temp),
     sum |-> Add32(s.sum, temp), count |-> s.count + 1]

(***************************************************************************)
(* processData: one iteration of the scan loop on the locals ws of a       *)
(* worker (i, start, endPos, hash, res), for i < endPos.  The result is    *)
(* the locals after the iteration's i++, and the heap; panic when the      *)
(* iteration indexes past the data or fills the table.                     *)
(***************************************************************************)
RECURSIVE findLineEnd(_, _)
findLineEnd(d, lineEnd) ==
    IF lineEnd < Len(d) /\ At(d, lineEnd) # Newline
    THEN findLineEnd(d, lineEnd + 1)
    ELSE lineEnd

\* a reset that leaves the hash of the station just read in the accumulator
nextLineKeepHash(ws, lineEnd) ==
    [ws EXCEPT !.i = lineEnd + 1, !.start = lineEnd + 1]

\* the reset for the next line: i = lineEnd and the i++ of the loop, the
\* start of the next station, a fresh hash
nextLine(ws, lineEnd) ==
    [ws EXCEPT !.i = lineEnd + 1, !.start = lineEnd + 1, !.hash = newFnvHash]

recordHit(hp, s, temp) == Store(hp, s, updateStats(Deref(hp, s), temp))

scanRecord(d, ws, hp, owner) ==
    LET station == Slice(d, ws.start, ws.i)
        lineEnd == findLineEnd(d, ws.i + 1)
        t == bytesToFixedPointInt(Slice(d, ws.i + 1, lineEnd))
        s == get(ws.res, ws.hash, station)
        hpNew == Alloc(hp, owner, newStats(t.val))
        added == add(ws.res, ws.hash, station, LastRef(hpNew, owner))
        after == nextLine(ws, lineEnd)
    IN  IF ws.start > ws.i \/ t.panic THEN [panic |-> TRUE, ws |-> ws, hp |-> hp]
        ELSE IF s = NilRef
        THEN [panic |-> added.full, ws |-> [after EXCEPT !.res = added.ht], hp |-> hpNew]
        ELSE [panic |-> FALSE, ws |-> after, hp |-> recordHit(hp, s, t.val)]

scanStep(d, ws, hp, owner) ==
    IF ws.i >= Len(d) THEN [panic |-> TRUE, ws |-> ws, hp |-> hp]
    ELSE IF At(d, ws.i) = Semicolon THEN scanRecord(d, ws, hp, owner)
    ELSE IF At(d, ws.i) = Newline
    THEN [panic |-> FALSE,
          ws |-> [ws EXCEPT !.i = ws.i + 1, !.start = ws.i + 1, !.hash = newFnvHash],
          hp |-> hp]
    ELSE [panic |-> FALSE,
          ws |-> [ws EXCEPT !.i = ws.i + 1, !.hash = hashByte(ws.hash, At(d, ws.i))],
          hp |-> hp]

processDataInit(start, endPos) ==
    [i |-> start, start |-> start, endPos |-> endPos, hash |-> newFnvHash,
     res |-> NewHashTable(NumBuckets)]

(***************************************************************************)
(* The chunker: the end of the block that starts at blockStart, for the    *)
(* loop index i.                                                           *)
(***************************************************************************)
RECURSIVE snapForward(_, _)
snapForward(d, blockEnd) ==
    IF blockEnd < Len(d) - 1 /\ At(d, blockEnd) # Newline
    THEN snapForward(d, blockEnd + 1)
    ELSE IF blockEnd < Len(d) THEN blockEnd + 1 ELSE blockEnd

chunkSize(d, n) == Len(d) \div n

blockEndOf(d, n, i, start) ==
    IF i = n - 1 THEN Len(d) ELSE snapForward(d, start + chunkSize(d, n))

(***************************************************************************)
(* mergeHashTables: the fold of one populated item of a source table.      *)
(***************************************************************************)
combineStats(s, v) ==
    [min |-> min(s.min, v.min), max |-> max(s.max, v.max),
     sum |-> Add32(s.sum, v.sum), count |-> s.count + v.count]

mergeMissAlias(rt, hp, it, owner) ==
    LET added == add(rt, it.hash, it.key, it.value)
    IN  [panic |-> added.full, res |-> added.ht, hp |-> hp]

mergeMiss(rt, hp, it, owner) ==
    LET v == Deref(hp, it.value)
        hpNew == Alloc(hp, owner, [max |-> v.max, min |-> v.min,
                                   sum |-> v.sum, count |-> v.count])
        added == add(rt, it.hash, it.key, LastRef(hpNew, owner))
    IN  [panic |-> added.full, res |-> added.ht, hp |-> hpNew]

mergeItem(rt, hp, it, owner) ==
    LET s == get(rt, it.hash, it.key)
    IN  IF s = NilRef THEN mergeMiss(rt, hp, it, owner)
        ELSE [panic |-> FALSE, res |-> rt,
              hp |-> Store(hp, s, combineStats(Deref(hp, s), Deref(hp, it.value)))]

\* the populated slots of table at or after slot from, in the order of the range loop
PopulatedFrom(table, from) ==
    {j \in DOMAIN table.items : j >= from /\ table.items[j].value # NilRef}

Least(S) == CHOOSE x \in S : \A y \in S : x <= y

(***************************************************************************)
(* The populated items of the merge table, sorted by bytes.Compare of the  *)
(* keys.                                                                   *)
(***************************************************************************)
RECURSIVE bytesLess(_, _)
bytesLess(a, b) ==
    IF Len(b) = 0 THEN FALSE
    ELSE IF Len(a) = 0 THEN TRUE
    ELSE IF Head(a) # Head(b) THEN Head(a) < Head(b)
    ELSE bytesLess(Tail(a), Tail(b))

RECURSIVE sortItems(_)
sortItems(S) ==
    IF S = {} THEN <<>>
    ELSE LET first == CHOOSE x \in S : \A y \in S : ~bytesLess(y.key, x.key)
         IN  <<first>> \o sortItems(S \ {first})

populatedItems(table) ==
    sortItems({table.items[j] : j \in PopulatedFrom(table, 0)})

(***************************************************************************)
(* The input files: up to MaxRecs records station;temp, each followed by   *)
(* a newline, the last one optionally not.  tv is the temperature of the   *)
(* field tf in tenths of a degree.                                         *)
(***************************************************************************)
\* "A", "B"
Stations == {<<65>>, <<66>>}

\* "1.0", "-99.9"
TempFields == {[tf |-> <<49, 46, 48>>, tv |-> 10],
               [tf |-> <<45, 57, 57, 46, 57>>, tv |-> 0 - 999]}

Records == {[st |-> s, tf |-> t.tf, tv |-> t.tv] : s \in Stations, t \in TempFields}

RecordSeqs == UNION {[1..n -> Records] : n \in 0..MaxRecs}

LineOf(r) == r.st \o <<Semicolon>> \o r.tf \o <<Newline>>

RECURSIVE FileOf(_)
FileOf(rs) == IF rs = <<>> THEN <<>> ELSE LineOf(Head(rs)) \o FileOf(Tail(rs))

\* the file of rs, with or without the newline of the last record
FileOfRecs(rs, trailing) ==
    IF trailing \/ rs = <<>> THEN FileOf(rs)
    ELSE SubSeq(FileOf(rs), 1, Len(FileOf(rs)) - 1)

Workers == 0..(numWorkers - 1)

NoDec == [neg |-> FALSE, ints |-> <<>>, frac |-> 0, line |-> <<>>, out |-> NilRef]
NoAgg == [w |-> <<>>, merged |-> NilRef, steps |-> 0]
NoTbl == [ht |-> NilRef]
NoFb == [buf |-> <<>>]

ToolsIdle == tbl = NoTbl /\ fb = NoFb

ToolsUnchanged == UNCHANGED <<tbl, fb>>

Init ==
    /\ recs \in RecordSeqs
    /\ \E trailing \in BOOLEAN : data = FileOfRecs(recs, trailing)
    /\ numWorkers \in 1..MaxWorkers
    /\ pc = "mmap"
    /\ loopI = 0
    /\ blockStart = 0
    /\ ranges = <<>>
    /\ wpc = [w \in Workers |-> "new"]
    /\ wst = [w \in Workers |-> NilRef]
    /\ results = [w \in Workers |-> NilRef]
    /\ heap = [o \in 0..numWorkers |-> <<>>]
    /\ res = NilRef
    /\ mergeT = 0
    /\ mergeS = 0
    /\ populated = <<>>
    /\ dec = NoDec
    /\ agg = NoAgg
    /\ ToolsIdle

\* syscall.Mmap fails with EINVAL on a length of 0, and process returns the error
Mmap ==
    /\ pc = "mmap"
    /\ pc' = IF Len(data) = 0 THEN "error" ELSE "chunk"
    /\ UNCHANGED <<recs, data, numWorkers, loopI, blockStart, ranges, wpc, wst,
                   results, heap, res, mergeT, mergeS, populated, dec, agg, tbl, fb>>

\* one iteration of the chunker loop: compute blockEnd, start goroutine i
Chunk ==
    /\ pc = "chunk"
    /\ loopI < numWorkers
    /\ LET blockEnd == blockEndOf(data, numWorkers, loopI, blockStart)
       IN  /\ ranges' = Append(ranges, <<blockStart, blockEnd>>)
           /\ wpc' = [wpc EXCEPT ![loopI] = "run"]
           /\ wst' = [wst EXCEPT ![loopI] = processDataInit(blockStart, blockEnd)]
           /\ blockStart' = blockEnd
    /\ loopI' = loopI + 1
    /\ UNCHANGED <<recs, data, numWorkers, pc, results, heap, res, mergeT, mergeS,
                   populated, dec, agg, tbl, fb>>

ChunkDone ==
    /\ pc = "chunk"
    /\ loopI >= numWorkers
    /\ pc' = "wait"
    /\ UNCHANGED <<recs, data, numWorkers, loopI, blockStart, ranges, wpc, wst,
                   results, heap, res, mergeT, mergeS, populated, dec, agg, tbl, fb>>

Running == pc \in {"chunk", "wait", "merge", "extract"}

\* one iteration of worker w's scan loop; a panic in a goroutine ends the program
WorkerScan(w) ==
    /\ Running
    /\ wpc[w] = "run"
    /\ wst[w].i < wst[w].endPos
    /\ LET r == scanStep(data, wst[w], heap, w)
       IN  IF r.panic
           THEN /\ pc' = "panic"
                /\ wpc' = [wpc EXCEPT ![w] = "panic"]
                /\ UNCHANGED <<wst, heap>>
           ELSE /\ wst' = [wst EXCEPT ![w] = r.ws]
                /\ heap' = r.hp
                /\ UNCHANGED <<pc, wpc>>
    /\ UNCHANGED <<recs, data, numWorkers, loopI, blockStart, ranges, results, res,
                   mergeT, mergeS, populated, dec, agg, tbl, fb>>

\* the loop has ended: results[w] = res, then the deferred wg.Done
WorkerReturn(w) ==
    /\ Running
    /\ wpc[w] = "run"
    /\ wst[w].i >= wst[w].endPos
    /\ results' = [results EXCEPT ![w] = wst[w].res]
    /\ wpc' = [wpc EXCEPT ![w] = "done"]
    /\ UNCHANGED <<recs, data, numWorkers, pc, loopI, blockStart, ranges, wst, heap,
                   res, mergeT, mergeS, populated, dec, agg, tbl, fb>>

wgDoneNoWait == TRUE

\* the WaitGroup counter is 0: every goroutine has run its wg.Done
wgDone == \A w \in Workers : wpc[w] = "done"

\* wg.Wait returns and mergeHashTables allocates its table
Wait ==
    /\ pc = "wait"
    /\ wgDone
    /\ pc' = "merge"
    /\ res' = NewHashTable(MergeBuckets)
    /\ mergeT' = 0
    /\ mergeS' = 0
    /\ UNCHANGED <<recs, data, numWorkers, loopI, blockStart, ranges, wpc, wst,
                   results, heap, populated, dec, agg, tbl, fb>>

\* the fold of the next populated item of results[mergeT]
MergeItem ==
    /\ pc = "merge"
    /\ mergeT < numWorkers
    /\ results[mergeT] # NilRef
    /\ PopulatedFrom(results[mergeT], mergeS) # {}
    /\ LET j == Least(PopulatedFrom(results[mergeT], mergeS))
           r == mergeItem(res, heap, results[mergeT].items[j], numWorkers)
       IN  IF r.panic
           THEN /\ pc' = "panic"
                /\ UNCHANGED <<res, heap, mergeS>>
           ELSE /\ res' = r.res
                /\ heap' = r.hp
                /\ mergeS' = j + 1
                /\ UNCHANGED pc
    /\ UNCHANGED <<recs, data, numWorkers, loopI, blockStart, ranges, wpc, wst,
                   results, mergeT, populated, dec, agg, tbl, fb>>

\* no populated item is left in results[mergeT]: on to the next table
MergeNextTable ==
    /\ pc = "merge"
    /\ mergeT < numWorkers
    /\ results[mergeT] # NilRef
    /\ PopulatedFrom(results[mergeT], mergeS) = {}
    /\ mergeT' = mergeT + 1
    /\ mergeS' = 0
    /\ UNCHANGED <<recs, data, numWorkers, pc, loopI, blockStart, ranges, wpc, wst,
                   results, heap, res, populated, dec, agg, tbl, fb>>

MergeReturn ==
    /\ pc = "merge"
    /\ mergeT >= numWorkers
    /\ pc' = "extract"
    /\ UNCHANGED <<recs, data, numWorkers, loopI, blockStart, ranges, wpc, wst,
                   results, heap, res, mergeT, mergeS, populated, dec, agg, tbl, fb>>

\* the populated items are collected and sorted, and the line is written
Extract ==
    /\ pc = "extract"
    /\ populated' = populatedItems(res)
    /\ pc' = "done"
    /\ UNCHANGED <<recs, data, numWorkers, loopI, blockStart, ranges, wpc, wst,
                   results, heap, res, mergeT, mergeS, dec, agg, tbl, fb>>

Next ==
    \/ Mmap
    \/ Chunk
    \/ ChunkDone
    \/ \E w \in Workers : WorkerScan(w)
    \/ \E w \in Workers : WorkerReturn(w)
    \/ Wait
    \/ MergeItem
    \/ MergeNextTable
    \/ MergeReturn
    \/ Extract

Spec == Init /\ [][Next]_vars

(***************************************************************************)
(* Ground truth, computed from the records the file was written from and   *)
(* not by the scan.                                                        *)
(***************************************************************************)
RECURSIVE RecOffset(_)
\* the offset in the file of the first byte of record k
RecOffset(k) == IF k = 1 THEN 0 ELSE RecOffset(k - 1) + Len(LineOf(recs[k - 1]))

\* the records that start in [begin, endPos)
RecsIn(begin, endPos) ==
    {k \in 1..Len(recs) : begin <= RecOffset(k) /\ RecOffset(k) < endPos}

RECURSIVE SumTemps(_)
SumTemps(K) ==
    IF K = {} THEN 0
    ELSE LET k == CHOOSE x \in K : TRUE IN recs[k].tv + SumTemps(K \ {k})

StatsOfRecs(K) ==
    [min |-> CHOOSE m \in {recs[k].tv : k \in K} : \A k \in K : m <= recs[k].tv,
     max |-> CHOOSE m \in {recs[k].tv : k \in K} : \A k \in K : m >= recs[k].tv,
     sum |-> SumTemps(K),
     count |-> Cardinality(K)]

\* the (station, aggregate) pairs of the records K
Expected(K) ==
    {<<st, StatsOfRecs({k \in K : recs[k].st = st})>> : st \in {recs[k].st : k \in K}}

\* the (key, aggregate) pairs of the populated slots of a table
Entries(ht, hp) ==
    {<<ht.items[j].key, Deref(hp, ht.items[j].value)>> : j \in PopulatedFrom(ht, 0)}

\* worker w was handed a block of the file that begins and ends on a line boundary
AlignedAt(p) == p = 0 \/ (p <= Len(data) /\ At(data, p - 1) = Newline) \/ p = Len(data)

AlignedRange(w) ==
    /\ 0 <= ranges[w + 1][1]
    /\ ranges[w + 1][1] <= ranges[w + 1][2]
    /\ ranges[w + 1][2] <= Len(data)
    /\ AlignedAt(ranges[w + 1][1])
    /\ AlignedAt(ranges[w + 1][2])

(***************************************************************************)
(* The sequential variant of process (src/main.go, lines 49-142): one scan *)
(* of the whole file, with the same loop body as processData.              *)
(***************************************************************************)
RECURSIVE scanLoop(_, _, _, _)
scanLoop(d, ws, hp, owner) ==
    IF ws.i >= ws.endPos THEN [panic |-> FALSE, ws |-> ws, hp |-> hp]
    ELSE LET r == scanStep(d, ws, hp, owner)
         IN  IF r.panic THEN r ELSE scanLoop(d, r.ws, r.hp, owner)

\* what the formatter reads of the sorted items: the key and the aggregate
lineEntries(sorted, hp) ==
    [k \in 1..Len(sorted) |-> [key |-> sorted[k].key, stats |-> Deref(hp, sorted[k].value)]]

sequentialProcess(d) ==
    IF Len(d) = 0 THEN [status |-> "error", line |-> <<>>]
    ELSE LET r == scanLoop(d, processDataInit(0, Len(d)), [o \in {0} |-> <<>>], 0)
         IN  IF r.panic THEN [status |-> "panic", line |-> <<>>]
             ELSE [status |-> "done",
                   line |-> lineEntries(populatedItems(r.ws.res), r.hp)]

\* what the parallel run has emitted once it has ended
Emitted ==
    [status |-> pc,
     line |-> IF pc = "done" THEN lineEntries(populated, heap) ELSE <<>>]

Ended == pc \in {"done", "error", "panic"}

(***************************************************************************)
(* C1: for any well-formed input and any worker count, the parallel run    *)
(* emits what one sequential scan of the whole file emits: the same        *)
(* stations with the same min, max, sum and count, in the same order.      *)
(***************************************************************************)
C1_SameAsSequential == Ended => Emitted = sequentialProcess(data)

RECURSIVE TotalCount(_)
TotalCount(line) ==
    IF line = <<>> THEN 0 ELSE Head(line).stats.count + TotalCount(Tail(line))

(***************************************************************************)
(* C2: for any well-formed input and any worker count, the run ends with a *)
(* merge table whose counts add up to the number of records of the input.  *)
(***************************************************************************)
C2_CountsEqualRecords ==
    /\ pc # "panic"
    /\ pc = "done" => TotalCount(lineEntries(populated, heap)) = Len(recs)

(***************************************************************************)
(* C3: on a block aligned on line boundaries, processData holds, each time *)
(* it stands at the start of a line and when it returns, exactly the       *)
(* stations of the records of the block read so far, each with the least   *)
(* and greatest temperature, the sum and the number of its records, in one *)
(* slot per station.                                                       *)
(***************************************************************************)
C3_ProcessDataTable ==
    \A w \in Workers :
        (wpc[w] \in {"run", "done"} /\ AlignedRange(w)) =>
            /\ wst[w].i = wst[w].start =>
                  /\ Entries(wst[w].res, heap) = Expected(RecsIn(ranges[w + 1][1], wst[w].i))
                  /\ wst[w].res.size = Cardinality(Expected(RecsIn(ranges[w + 1][1], wst[w].i)))
                  /\ Cardinality(PopulatedFrom(wst[w].res, 0)) = wst[w].res.size
            /\ wpc[w] = "done" =>
                  /\ results[w] = wst[w].res
                  /\ Entries(results[w], heap)
                        = Expected(RecsIn(ranges[w + 1][1], ranges[w + 1][2]))

\* a worker has returned the table of a block with two stations, one of them
\* observed more than once with different temperatures
C3_Witness ==
    \E w \in Workers :
        /\ wpc[w] = "done"
        /\ AlignedRange(w)
        /\ Cardinality(Entries(results[w], heap)) = 2
        /\ \E e \in Entries(results[w], heap) : e[2].count >= 2 /\ e[2].min < e[2].max

(***************************************************************************)
(* What the merge of the workers' tables must hold, computed from the      *)
(* tables by set operations and not by the fold.                           *)
(***************************************************************************)
KeysOf(ht) == {ht.items[j].key : j \in PopulatedFrom(ht, 0)}

HoldersOf(key) == {w \in Workers : key \in KeysOf(results[w])}

StatsIn(w, key) ==
    Deref(heap, results[w].items[CHOOSE j \in PopulatedFrom(results[w], 0) :
                                     results[w].items[j].key = key].value)

RECURSIVE SumOver(_, _, _)
SumOver(W, key, field) ==
    IF W = {} THEN 0
    ELSE LET w == CHOOSE x \in W : TRUE
         IN  StatsIn(w, key)[field] + SumOver(W \ {w}, key, field)

MergedStats(key) ==
    LET W == HoldersOf(key)
    IN  [min |-> CHOOSE m \in {StatsIn(w, key).min : w \in W} :
                     \A w \in W : m <= StatsIn(w, key).min,
         max |-> CHOOSE m \in {StatsIn(w, key).max : w \in W} :
                     \A w \in W : m >= StatsIn(w, key).max,
         sum |-> SumOver(W, key, "sum"),
         count |-> SumOver(W, key, "count")]

ExpectedMerge ==
    {<<key, MergedStats(key)>> : key \in UNION {KeysOf(results[w]) : w \in Workers}}

C4_MergedTable ==
    /\ res # NilRef =>
          \A j \in PopulatedFrom(res, 0) : res.items[j].value[1] = numWorkers
    /\ pc \in {"extract", "done"} =>
          /\ Entries(res, heap) = ExpectedMerge
          /\ Cardinality(PopulatedFrom(res, 0)) = Cardinality(ExpectedMerge)
          /\ res.size = Cardinality(ExpectedMerge)

C4_SourcesUnchanged ==
    pc = "merge" => /\ results' = results
                    /\ \A w \in Workers : heap'[w] = heap[w]

(***************************************************************************)
(* C4: mergeHashTables returns a table whose keys are the union of the     *)
(* keys of the workers' tables, one slot per key, each with the least of   *)
(* the workers' mins, the greatest of their maxes and the sums of their    *)
(* sums and counts; its aggregates are objects of its own, and the merge   *)
(* changes neither the workers' tables nor their aggregates.               *)
(***************************************************************************)
C4_Merge == [](C4_MergedTable) /\ [][C4_SourcesUnchanged]_vars

\* the merge has folded a station two workers hold, with different temperatures,
\* and a station only one worker holds
C4_Witness ==
    /\ pc = "done"
    /\ \E e \in Entries(res, heap) :
          Cardinality(HoldersOf(e[1])) >= 2 /\ e[2].min < e[2].max
    /\ \E e \in Entries(res, heap) : Cardinality(HoldersOf(e[1])) = 1

(***************************************************************************)
(* C5: the blocks handed to the workers are contiguous and partition the   *)
(* file: the first begins at 0, each begins where the previous one ended,  *)
(* the last ends at the file size, 0 <= begin <= end <= file size, and     *)
(* every begin is 0 or follows a newline.                                  *)
(***************************************************************************)
C5_RangesPartition ==
    /\ \A k \in 1..Len(ranges) :
          /\ 0 <= ranges[k][1]
          /\ ranges[k][1] <= ranges[k][2]
          /\ ranges[k][2] <= Len(data)
          /\ ranges[k][1] = (IF k = 1 THEN 0 ELSE ranges[k - 1][2])
          /\ ranges[k][1] = 0 \/ At(data, ranges[k][1] - 1) = Newline
    /\ Len(ranges) = numWorkers => ranges[numWorkers][2] = Len(data)

(***************************************************************************)
(* C6: a worker whose block starts at the end of the file, because the     *)
(* earlier blocks have taken every line, reads no byte at or past the file *)
(* size, so it does not panic, and returns an empty table.                 *)
(***************************************************************************)
C6_DegenerateTolerated ==
    \A w \in Workers :
        (w < Len(ranges) /\ ranges[w + 1][1] >= Len(data)) =>
            /\ wpc[w] # "panic"
            /\ wpc[w] = "done" => results[w] = NewHashTable(NumBuckets)

C7_Joined ==
    pc \in {"merge", "extract", "done"} =>
        \A w \in Workers : wpc[w] = "done" /\ results[w] # NilRef

C7_Writes ==
    /\ \A w \in Workers :
          (results'[w] # results[w] \/ heap'[w] # heap[w]
             \/ (wpc[w] = "run" /\ wst'[w] # wst[w])) =>
              /\ wpc[w] = "run"
              /\ \A v \in Workers \ {w} :
                    /\ results'[v] = results[v]
                    /\ heap'[v] = heap[v]
                    /\ wst'[v] = wst[v]
              /\ res' = res
              /\ heap'[numWorkers] = heap[numWorkers]
    /\ (res' # res \/ heap'[numWorkers] # heap[numWorkers]) =>
          /\ pc \in {"wait", "merge"}
          /\ results' = results
          /\ wst' = wst
          /\ \A w \in Workers : heap'[w] = heap[w]

(***************************************************************************)
(* C7: the merge runs only after every worker has returned; a step that    *)
(* changes results[w], the locals and table of worker w or the aggregates  *)
(* of worker w is a step of worker w and changes nothing of another        *)
(* worker; during the merge only the merge table, its aggregates and the   *)
(* merge's own position change.                                            *)
(***************************************************************************)
C7_Exclusive == [](C7_Joined) /\ [][C7_Writes]_vars

\* the merge is folding a worker's table while two workers have returned tables
\* that are not empty
C7_Witness ==
    /\ pc = "merge"
    /\ res.size >= 1
    /\ Cardinality({w \in Workers : results[w] # NilRef /\ results[w].size >= 1}) >= 2

(***************************************************************************)
(* C10: for every well-formed input the run ends with a merge table whose  *)
(* populated items hold exactly one entry for every station of the input,  *)
(* and no entry for any other key.                                         *)
(***************************************************************************)
C10_OneEntryPerStation ==
    /\ pc # "panic"
    /\ pc = "done" =>
          /\ \A k \in 1..Len(recs) :
                Cardinality({n \in 1..Len(populated) : populated[n].key = recs[k].st}) = 1
          /\ \A n \in 1..Len(populated) :
                \E k \in 1..Len(recs) : populated[n].key = recs[k].st

(***************************************************************************)
(* The decoder on its own: a record whose temperature field has one of the *)
(* four legal shapes, with any digits, followed by a newline or by the end *)
(* of the file; the field is cut out of the line as processData does.      *)
(***************************************************************************)
PipelineIdle ==
    /\ recs = <<>>
    /\ data = <<>>
    /\ numWorkers = 1
    /\ pc = "idle"
    /\ loopI = 0
    /\ blockStart = 0
    /\ ranges = <<>>
    /\ wpc = <<>>
    /\ wst = <<>>
    /\ results = <<>>
    /\ heap = <<>>
    /\ res = NilRef
    /\ mergeT = 0
    /\ mergeS = 0
    /\ populated = <<>>

PipelineUnchanged ==
    UNCHANGED <<recs, data, numWorkers, pc, loopI, blockStart, ranges, wpc, wst,
                results, heap, res, mergeT, mergeS, populated>>

Digits == 0..9

FieldOf(neg, ints, frac) ==
    (IF neg THEN <<Minus>> ELSE <<>>)
        \o [k \in 1..Len(ints) |-> Zero + ints[k]] \o <<Dot, Zero + frac>>

DecInit ==
    /\ PipelineIdle
    /\ agg = NoAgg
    /\ ToolsIdle
    /\ \E neg \in BOOLEAN, n \in 1..2, frac \in Digits, terminated \in BOOLEAN :
          \E ints \in [1..n -> Digits] :
              dec = [neg |-> neg, ints |-> ints, frac |-> frac,
                     line |-> <<65, Semicolon>> \o FieldOf(neg, ints, frac)
                                 \o (IF terminated THEN <<Newline>> ELSE <<>>),
                     out |-> NilRef]

\* the line end is found and the field after the semicolon at index 1 is decoded
Decode ==
    /\ dec.out = NilRef
    /\ dec' = [dec EXCEPT !.out =
                  bytesToFixedPointInt(Slice(dec.line, 2, findLineEnd(dec.line, 2)))]
    /\ PipelineUnchanged
    /\ UNCHANGED agg
    /\ ToolsUnchanged

DecNext == Decode

SpecDecode == DecInit /\ [][DecNext]_vars

\* ten times the decimal value of the field, from its sign and digits
TenthsOf(neg, ints, frac) ==
    LET whole == IF Len(ints) = 1 THEN ints[1] ELSE ints[1] * 10 + ints[2]
    IN  (IF neg THEN 0 - 1 ELSE 1) * (whole * 10 + frac)

(***************************************************************************)
(* C9: on every field of the shapes D.D, DD.D, -D.D and -DD.D the decoder  *)
(* returns ten times the decimal value with its sign, within [-999, 999],  *)
(* and reads no byte outside the field.                                    *)
(***************************************************************************)
C9_DecoderCorrect ==
    dec.out # NilRef =>
        /\ ~dec.out.panic
        /\ dec.out.val = TenthsOf(dec.neg, dec.ints, dec.frac)
        /\ dec.out.val >= 0 - 999
        /\ dec.out.val <= 999
        /\ dec.out.last < Len(FieldOf(dec.neg, dec.ints, dec.frac))

\* -99.9 has been decoded to -999
C9_Witness ==
    /\ dec.neg
    /\ dec.ints = <<9, 9>>
    /\ dec.frac = 9
    /\ dec.out # NilRef
    /\ dec.out.val = 0 - 999

(***************************************************************************)
(* The aggregate of one station on its own: its records are spread over    *)
(* two workers, then the two aggregates are merged.  A run of k records    *)
(* with the same temperature is k iterations of the update in one step.    *)
(***************************************************************************)
AggTemps == {0 - 999, 0 - 1, 0, 999}

RunLengths == {1048576, 2097152}

AggWorkers == 0..1

RECURSIVE AddRun(_, _, _)
\* sum after k times sum += d, by doubling: d is the int32 value of 2^j * temp
AddRun(sum, d, k) ==
    IF k = 0 THEN sum
    ELSE AddRun(IF k % 2 = 1 THEN Add32(sum, d) ELSE sum, Add32(d, d), k \div 2)

updateStatsRun(s, temp, k) ==
    [min |-> min(s.min, temp), max |-> max(s.max, temp),
     sum |-> AddRun(s.sum, temp, k), count |-> s.count + k]

AggInit ==
    /\ PipelineIdle
    /\ dec = NoDec
    /\ ToolsIdle
    /\ agg = [w |-> [x \in AggWorkers |-> NilRef], merged |-> NilRef, steps |-> 0]

\* the first record of the station in worker x: a miss
AggMiss(x, temp) ==
    /\ agg.merged = NilRef
    /\ agg.steps < MaxAggSteps
    /\ agg.w[x] = NilRef
    /\ agg' = [agg EXCEPT !.w[x] = newStats(temp), !.steps = agg.steps + 1]
    /\ PipelineUnchanged
    /\ UNCHANGED dec
    /\ ToolsUnchanged

\* a later record of the station in worker x: a hit
AggHit(x, temp) ==
    /\ agg.merged = NilRef
    /\ agg.steps < MaxAggSteps
    /\ agg.w[x] # NilRef
    /\ agg' = [agg EXCEPT !.w[x] = updateStats(agg.w[x], temp), !.steps = agg.steps + 1]
    /\ PipelineUnchanged
    /\ UNCHANGED dec
    /\ ToolsUnchanged

\* k later records of the station in worker x, all with the same temperature
AggHitRun(x, temp, k) ==
    /\ agg.merged = NilRef
    /\ agg.steps < MaxAggSteps
    /\ agg.w[x] # NilRef
    /\ agg' = [agg EXCEPT !.w[x] = updateStatsRun(agg.w[x], temp, k),
                          !.steps = agg.steps + 1]
    /\ PipelineUnchanged
    /\ UNCHANGED dec
    /\ ToolsUnchanged

\* the workers have returned: the merge copies the first aggregate it meets and
\* combines the second with it
AggMerge ==
    /\ agg.merged = NilRef
    /\ \E x \in AggWorkers : agg.w[x] # NilRef
    /\ agg' = [agg EXCEPT !.merged =
                  IF agg.w[0] = NilRef THEN agg.w[1]
                  ELSE IF agg.w[1] = NilRef THEN agg.w[0]
                  ELSE combineStats(agg.w[0], agg.w[1])]
    /\ PipelineUnchanged
    /\ UNCHANGED dec
    /\ ToolsUnchanged

AggNext ==
    \/ \E x \in AggWorkers, temp \in AggTemps : AggMiss(x, temp)
    \/ \E x \in AggWorkers, temp \in AggTemps : AggHit(x, temp)
    \/ \E x \in AggWorkers, temp \in AggTemps, k \in RunLengths : AggHitRun(x, temp, k)
    \/ AggMerge

SpecAgg == AggInit /\ [][AggNext]_vars

\* min * count <= sum <= max * count, without the products
MeanWithin(s) ==
    /\ s.min <= s.sum \div s.count
    /\ (s.sum \div s.count) + (IF s.sum % s.count = 0 THEN 0 ELSE 1) <= s.max

(***************************************************************************)
(* C8: for every station the mean sum / count lies between min and max,    *)
(* that is min * count <= sum <= max * count, whatever the number of its   *)
(* records.  The products are avoided: min <= floor(sum / count) and       *)
(* ceiling(sum / count) <= max.                                            *)
(***************************************************************************)
C8_MeanBetweenMinAndMax ==
    /\ \A x \in AggWorkers : agg.w[x] # NilRef => MeanWithin(agg.w[x])
    /\ agg.merged # NilRef => MeanWithin(agg.merged)

(***************************************************************************)
(* The outcome of process on the file d with n workers, as a function: the *)
(* blocks of the chunker loop, processData on each block, the fold of the  *)
(* tables in order, the sorted populated items.  The outcome of the        *)
(* goroutines does not depend on their interleaving, so each is run to its *)
(* end in turn; a panic of any of them is the outcome of the run.          *)
(***************************************************************************)
RECURSIVE chunkRanges(_, _, _, _)
chunkRanges(d, n, i, start) ==
    IF i >= n THEN <<>>
    ELSE <<<<start, blockEndOf(d, n, i, start)>>>>
             \o chunkRanges(d, n, i + 1, blockEndOf(d, n, i, start))

RECURSIVE runWorkers(_, _, _, _)
\* the tables of the workers w, w+1, ..., and the heap they leave
runWorkers(d, rs, w, hp) ==
    IF w >= Len(rs) THEN [panic |-> FALSE, tables |-> <<>>, hp |-> hp]
    ELSE LET r == scanLoop(d, processDataInit(rs[w + 1][1], rs[w + 1][2]), hp, w)
             rest == runWorkers(d, rs, w + 1, r.hp)
         IN  IF r.panic \/ rest.panic THEN [panic |-> TRUE, tables |-> <<>>, hp |-> hp]
             ELSE [panic |-> FALSE, tables |-> <<r.ws.res>> \o rest.tables, hp |-> rest.hp]

RECURSIVE mergeTable(_, _, _, _, _)
\* the fold of the populated items of table at or after slot from
mergeTable(rt, hp, table, from, owner) ==
    IF PopulatedFrom(table, from) = {} THEN [panic |-> FALSE, res |-> rt, hp |-> hp]
    ELSE LET j == Least(PopulatedFrom(table, from))
             r == mergeItem(rt, hp, table.items[j], owner)
         IN  IF r.panic THEN r ELSE mergeTable(r.res, r.hp, table, j + 1, owner)

RECURSIVE mergeTables(_, _, _, _)
mergeTables(rt, hp, tables, owner) ==
    IF tables = <<>> THEN [panic |-> FALSE, res |-> rt, hp |-> hp]
    ELSE LET r == mergeTable(rt, hp, Head(tables), 0, owner)
         IN  IF r.panic THEN r ELSE mergeTables(r.res, r.hp, Tail(tables), owner)

parallelProcess(d, n) ==
    IF Len(d) = 0 THEN [status |-> "error", line |-> <<>>]
    ELSE LET w == runWorkers(d, chunkRanges(d, n, 0, 0), 0, [o \in 0..n |-> <<>>])
             m == mergeTables(NewHashTable(MergeBuckets), w.hp, w.tables, n)
         IN  IF w.panic \/ m.panic THEN [status |-> "panic", line |-> <<>>]
             ELSE [status |-> "done", line |-> lineEntries(populatedItems(m.res), m.hp)]

\* the orders of the records rs
OrdersOf(rs) ==
    {[k \in 1..Len(rs) |-> rs[f[k]]] :
        f \in {g \in [1..Len(rs) -> 1..Len(rs)] : \A a, b \in 1..Len(rs) : a # b => g[a] # g[b]}}

\* whether the file ends with the newline of its last record
Trailing == Len(data) = 0 \/ At(data, Len(data) - 1) = Newline

(***************************************************************************)
(* The pipeline on files of lines of unequal length and with empty lines:  *)
(* the same program, started on other inputs.                              *)
(***************************************************************************)
Blank == [st |-> <<>>, tf |-> <<>>, tv |-> 0]

\* "A;1.0", "BCD;-99.9" and the empty line
Lines ==
    {[st |-> <<65>>, tf |-> <<49, 46, 48>>, tv |-> 10],
     [st |-> <<66, 67, 68>>, tf |-> <<45, 57, 57, 46, 57>>, tv |-> 0 - 999],
     Blank}

LineSeqs == UNION {[1..n -> Lines] : n \in 0..MaxRecs}

TextOf(r) == IF r = Blank THEN <<Newline>> ELSE LineOf(r)

RECURSIVE TextOfLines(_)
TextOfLines(rs) == IF rs = <<>> THEN <<>> ELSE TextOf(Head(rs)) \o TextOfLines(Tail(rs))

\* the file of the lines rs, with or without the newline of the last one
FileOfLines(rs, trailing) ==
    IF trailing \/ rs = <<>> THEN TextOfLines(rs)
    ELSE SubSeq(TextOfLines(rs), 1, Len(TextOfLines(rs)) - 1)

InitLines ==
    /\ recs \in LineSeqs
    /\ \E trailing \in BOOLEAN : data = FileOfLines(recs, trailing)
    /\ numWorkers \in 1..MaxWorkers
    /\ pc = "mmap"
    /\ loopI = 0
    /\ blockStart = 0
    /\ ranges = <<>>
    /\ wpc = [w \in Workers |-> "new"]
    /\ wst = [w \in Workers |-> NilRef]
    /\ results = [w \in Workers |-> NilRef]
    /\ heap = [o \in 0..numWorkers |-> <<>>]
    /\ res = NilRef
    /\ mergeT = 0
    /\ mergeS = 0
    /\ populated = <<>>
    /\ dec = NoDec
    /\ agg = NoAgg
    /\ ToolsIdle

SpecLines == InitLines /\ [][Next]_vars

\* the file holds records only, no empty line
RecordsOnly == \A k \in 1..Len(recs) : recs[k] # Blank

(***************************************************************************)
(* C11: the run on the file with its records in any other order, for the   *)
(* same number of workers, ends as the run on the file does: it succeeds   *)
(* if and only if this one does, with the same stations and the same min,  *)
(* max, sum and count.                                                     *)
(***************************************************************************)
C11_PermutationInvariant ==
    (Ended /\ RecordsOnly) =>
        \A p \in OrdersOf(recs) :
            parallelProcess(FileOfLines(p, Trailing), numWorkers) = Emitted

(***************************************************************************)
(* The formatter of process: the bytes it writes, with each Fprintf as the *)
(* format and its arguments.                                               *)
(***************************************************************************)
BraceOpen == 123
BraceClose == 125
Comma == 44
Space == 32

formatItem(k, it, hp) ==
    (IF k > 1 THEN <<Comma, Space>> ELSE <<>>)
        \o it.key
        \o <<[format |-> "=%.1f/%.1f/%.1f",
              min |-> Deref(hp, it.value).min,
              sum |-> Deref(hp, it.value).sum,
              count |-> Deref(hp, it.value).count,
              max |-> Deref(hp, it.value).max]>>

RECURSIVE formatItems(_, _, _)
formatItems(sorted, k, hp) ==
    IF k > Len(sorted) THEN <<>>
    ELSE formatItem(k, sorted[k], hp) \o formatItems(sorted, k + 1, hp)

formatOutput(sorted, hp) ==
    <<BraceOpen>> \o formatItems(sorted, 1, hp) \o <<BraceClose, Newline>>

\* what process has written to output when it has returned
Written == IF pc = "done" THEN formatOutput(populated, heap) ELSE <<>>

(***************************************************************************)
(* C12: on an empty input file (size 0) process succeeds, returns no error *)
(* and writes exactly the line "{}" followed by a newline.                 *)
(***************************************************************************)
C12_EmptyFileBraces ==
    (Len(data) = 0 /\ Ended) =>
        (pc = "done" /\ Written = <<BraceOpen, BraceClose, Newline>>)

(***************************************************************************)
(* The hash table on its own: a table of a few slots, and callers that add *)
(* and get in any order.  A key is always passed with the same hash: the   *)
(* FNV hash of its bytes as the workers compute it, or one hash for every  *)
(* key, which makes all keys collide.  The aggregates are references that  *)
(* are not nil, as at every call of add in the program.                    *)
(***************************************************************************)
MaxTableLen == 3

\* "A", "B", ...: one key more than the table has slots
TableKeys == {<<65 + k>> : k \in 0..MaxTableLen}

TableValues == {<<0, 1>>, <<0, 2>>}

RECURSIVE hashBytes(_, _)
\* the accumulator after the bytes of key, from the accumulator h
hashBytes(h, key) ==
    IF key = <<>> THEN h ELSE hashBytes(hashByte(h, Head(key)), Tail(key))

Hashings == {[k \in TableKeys |-> hashBytes(newFnvHash, k)],
             [k \in TableKeys |-> newFnvHash]}

PopulatedSlots(ht) == {j \in DOMAIN ht.items : ht.items[j].value # NilRef}

TableInit ==
    /\ PipelineIdle
    /\ dec = NoDec
    /\ agg = NoAgg
    /\ fb = NoFb
    /\ \E n \in 1..MaxTableLen, hs \in Hashings :
          tbl = [ht |-> NewHashTable(n), hashOf |-> hs,
                 added |-> [k \in TableKeys |-> NilRef],
                 op |-> "new", key |-> <<>>, prev |-> NilRef, ret |-> NilRef]

\* ht.add(hash, key, v); a panic ends the program
TableAdd ==
    /\ tbl.op # "panic"
    /\ \E k \in TableKeys, v \in TableValues :
          LET r == add(tbl.ht, tbl.hashOf[k], k, v)
          IN  tbl' = [tbl EXCEPT !.ht = r.ht,
                                 !.op = IF r.full THEN "panic" ELSE "add",
                                 !.key = k,
                                 !.prev = tbl.added[k],
                                 !.ret = NilRef,
                                 !.added = IF r.full THEN tbl.added
                                           ELSE [tbl.added EXCEPT ![k] = v]]
    /\ PipelineUnchanged
    /\ UNCHANGED <<dec, agg, fb>>

\* ht.get(hash, key)
TableGet ==
    /\ tbl.op # "panic"
    /\ \E k \in TableKeys :
          tbl' = [tbl EXCEPT !.op = "get", !.key = k, !.prev = tbl.added[k],
                             !.ret = get(tbl.ht, tbl.hashOf[k], k)]
    /\ PipelineUnchanged
    /\ UNCHANGED <<dec, agg, fb>>

TableNext == TableAdd \/ TableGet

SpecTable == TableInit /\ [][TableNext]_vars

\* the slots of ht that hold the key
SlotsOf(ht, key) == {j \in PopulatedSlots(ht) : ht.items[j].key = key}

C13_DistinctKeys ==
    \A i, j \in PopulatedSlots(tbl.ht) :
        tbl.ht.items[i].key = tbl.ht.items[j].key => i = j

C13_Overwrite ==
    (tbl'.op = "add" /\ tbl'.prev # NilRef) =>
        /\ PopulatedSlots(tbl'.ht) = PopulatedSlots(tbl.ht)
        /\ tbl'.ht.size = tbl.ht.size
        /\ \A j \in PopulatedSlots(tbl.ht) :
              IF tbl.ht.items[j].key = tbl'.key
              THEN tbl'.ht.items[j] =
                       [tbl.ht.items[j] EXCEPT !.value = tbl'.added[tbl'.key]]
              ELSE tbl'.ht.items[j] = tbl.ht.items[j]

(***************************************************************************)
(* C13: after any sequence of add and get calls in which a key is always   *)
(* passed with the same hash, no two populated slots hold equal key bytes; *)
(* add on a key already present overwrites that slot's aggregate and       *)
(* changes neither the number of populated slots nor the size counter.     *)
(***************************************************************************)
C13_NoDuplicateKeys == [](C13_DistinctKeys) /\ [][C13_Overwrite]_vars

\* an add has replaced the aggregate of a key that was present, in a table
\* where another key collides with it
C13_Witness ==
    /\ tbl.op = "add"
    /\ tbl.prev # NilRef
    /\ tbl.prev # tbl.added[tbl.key]
    /\ \E j \in SlotsOf(tbl.ht, tbl.key) : j # HashMod(tbl.hashOf[tbl.key], tbl.ht.len)

\* the probe for key k on the table, and what get and add make of it
ProbeOf(k) == probe(tbl.ht, tbl.hashOf[k], k)

Full(ht) == Cardinality(PopulatedSlots(ht)) = ht.len

C14_ProbeEnds(k) ==
    \/ /\ ProbeOf(k).at = "key"
       /\ ProbeOf(k).steps < tbl.ht.len
       /\ Slot(tbl.ht, ProbeOf(k).index).key = k
    \/ /\ ProbeOf(k).at = "empty"
       /\ ProbeOf(k).steps < tbl.ht.len
    \/ /\ ProbeOf(k).at = "wrapped"
       /\ ProbeOf(k).steps = tbl.ht.len
       /\ ProbeOf(k).index = HashMod(tbl.hashOf[k], tbl.ht.len)
       /\ Full(tbl.ht)
       /\ SlotsOf(tbl.ht, k) = {}
       /\ get(tbl.ht, tbl.hashOf[k], k) = NilRef
       /\ \A v \in TableValues : add(tbl.ht, tbl.hashOf[k], k, v) = tableFull(tbl.ht)

(***************************************************************************)
(* C14, as the code has it: the occupied count is the number of populated  *)
(* slots and is at most the table length (size <= len; the table can fill  *)
(* up).  Every probe of get and add ends at the slot holding the key or at *)
(* an empty slot before the index is back at the home slot, or, on a full  *)
(* table without the key, with the index back at the home slot after len   *)
(* steps, where get returns nil and add panics.                            *)
(***************************************************************************)
C14_SizeAtMostLen ==
    /\ tbl.ht.size = Cardinality(PopulatedSlots(tbl.ht))
    /\ tbl.ht.size <= tbl.ht.len
    /\ \A k \in TableKeys : C14_ProbeEnds(k)

\* C14 as stated: size < len in every reachable state, and every probe ends
\* at the key or at an empty slot before the index wraps around to its home
C14_SizeBelowLen ==
    /\ tbl.ht.size < tbl.ht.len
    /\ \A k \in TableKeys : ProbeOf(k).at \in {"key", "empty"}

\* a get of an absent key has gone once around a full table of three slots
C14_Witness ==
    /\ tbl.op = "get"
    /\ tbl.ht.len = MaxTableLen
    /\ tbl.ht.size = tbl.ht.len
    /\ ProbeOf(tbl.key).at = "wrapped"
    /\ tbl.ret = NilRef

C15_FullTable ==
    Full(tbl.ht) =>
        \A k \in TableKeys : SlotsOf(tbl.ht, k) = {} =>
            /\ ProbeOf(k).at = "wrapped"
            /\ ProbeOf(k).steps = tbl.ht.len
            /\ get(tbl.ht, tbl.hashOf[k], k) = NilRef
            /\ \A v \in TableValues :
                  /\ add(tbl.ht, tbl.hashOf[k], k, v).full
                  /\ add(tbl.ht, tbl.hashOf[k], k, v).ht = tbl.ht

C15_AddStep ==
    /\ tbl'.ht.len = tbl.ht.len
    /\ DOMAIN tbl'.ht.items \subseteq 0..(tbl.ht.len - 1)
    /\ tbl'.op = "panic" =>
          /\ tbl'.ht = tbl.ht
          /\ Full(tbl.ht)
          /\ SlotsOf(tbl.ht, tbl'.key) = {}
    /\ (tbl'.op = "add" /\ tbl' # tbl) =>
          /\ \E j \in SlotsOf(tbl'.ht, tbl'.key) :
                tbl'.ht.items[j].value = tbl'.added[tbl'.key]
          /\ \A j \in PopulatedSlots(tbl.ht) :
                tbl.ht.items[j].key # tbl'.key => tbl'.ht.items[j] = tbl.ht.items[j]
    /\ (tbl'.op = "get" /\ Full(tbl.ht) /\ SlotsOf(tbl.ht, tbl'.key) = {}) =>
          tbl'.ret = NilRef

(***************************************************************************)
(* C15: the table never grows or rehashes.  add of a key that is not       *)
(* present into a table whose slots are all populated panics after one     *)
(* full probe cycle, without overwriting the slot of another key, without  *)
(* dropping the record silently and without changing the table; get of an  *)
(* absent key on a full table terminates and returns nil.                  *)
(***************************************************************************)
C15_FullTableIsFatal == [](C15_FullTable) /\ [][C15_AddStep]_vars

\* add has panicked on a full table of three slots
C15_Witness ==
    /\ tbl.op = "panic"
    /\ tbl.ht.len = MaxTableLen
    /\ Full(tbl.ht)
    /\ tbl.prev = NilRef

\* the slots from the home slot of the key in slot j up to j, cyclically
ProbePath(ht, j) ==
    LET home == HashMod(ht.items[j].hash, ht.len)
    IN  {(home + d) % ht.len : d \in 0..((j + ht.len - home) % ht.len)}

(***************************************************************************)
(* C20: after any sequence of add calls with consistent hashes, for every  *)
(* populated slot j holding key k every slot on the cyclic probe path from *)
(* the home slot of k up to j is populated; get(hash(k), k) returns the    *)
(* aggregate last added for k, and nil only for keys never added.          *)
(***************************************************************************)
C20_ProbeReachability ==
    /\ \A j \in PopulatedSlots(tbl.ht) :
          /\ tbl.ht.items[j].hash = tbl.hashOf[tbl.ht.items[j].key]
          /\ ProbePath(tbl.ht, j) \subseteq PopulatedSlots(tbl.ht)
    /\ \A k \in TableKeys : get(tbl.ht, tbl.hashOf[k], k) = tbl.added[k]
    /\ tbl.op = "get" => tbl.ret = tbl.added[tbl.key]

\* a get has found a key two slots past its home slot, around the end of the
\* table
C20_Witness ==
    /\ tbl.op = "get"
    /\ tbl.ret # NilRef
    /\ \E j \in SlotsOf(tbl.ht, tbl.key) :
          /\ j < HashMod(tbl.hashOf[tbl.key], tbl.ht.len)
          /\ Cardinality(ProbePath(tbl.ht, j)) = 3

\* the positions at or after p that hold a newline
NewlinesFrom(p) == {q \in 0..(Len(data) - 1) : q >= p /\ At(data, q) = Newline}

\* the byte just after the next newline at or after p, or the file size
SnapAfter(p) ==
    IF NewlinesFrom(p) = {} THEN Len(data) ELSE Least(NewlinesFrom(p)) + 1

(***************************************************************************)
(* C16: for every i in 1..W-1 the boundary between range i-1 and range i   *)
(* is the fixed position i * (file_size / W) advanced to the byte just     *)
(* after the next newline at or after it (or to file_size if there is      *)
(* none), wherever the previous boundary was snapped.                      *)
(***************************************************************************)
C16_FixedPositions ==
    \A i \in 1..(numWorkers - 1) :
        i <= Len(ranges) =>
            /\ ranges[i][2] = SnapAfter(i * (Len(data) \div numWorkers))
            /\ i < Len(ranges) => ranges[i + 1][1] = ranges[i][2]

\* worker w is about to call get, and add on a miss: its loop is at a ';'
AtSemicolon(w) ==
    /\ wpc[w] = "run"
    /\ wst[w].i < wst[w].endPos
    /\ wst[w].i < Len(data)
    /\ At(data, wst[w].i) = Semicolon
    /\ wst[w].start <= wst[w].i

\* every populated slot of the table stores the hash of its key
StoresKeyHash(table) ==
    table # NilRef =>
        \A j \in PopulatedSlots(table) :
            table.items[j].hash = hashBytes(newFnvHash, table.items[j].key)

(***************************************************************************)
(* C17: at every get and add issued by a worker the hash argument is the   *)
(* FNV accumulation over exactly the bytes of the station key              *)
(* data[start:i], also for the first record of a range and for a record    *)
(* that follows an empty line; every populated slot of a worker table and  *)
(* of the merge table stores the hash of its key, so the hash the merger   *)
(* reuses from a worker slot is the hash recomputed from the key.          *)
(***************************************************************************)
C17_HashOfKeyBytes ==
    /\ \A w \in Workers :
          /\ AtSemicolon(w) =>
                wst[w].hash =
                    hashBytes(newFnvHash, Slice(data, wst[w].start, wst[w].i))
          /\ wpc[w] = "run" => StoresKeyHash(wst[w].res)
          /\ StoresKeyHash(results[w])
    /\ StoresKeyHash(res)

\* a worker that has stored a record is at the ';' of BCD after an empty line
C17_Witness ==
    \E w \in Workers :
        /\ AtSemicolon(w)
        /\ wst[w].i = wst[w].start + 3
        /\ wst[w].start >= 2
        /\ At(data, wst[w].start - 1) = Newline
        /\ At(data, wst[w].start - 2) = Newline
        /\ wst[w].res.size = 1

\* the sizes the README documents: 2^14 slots per worker, 2^18 for the merge
DocWorkerBuckets == 16384
DocMergeBuckets == 262144

(***************************************************************************)
(* C18: the merge table is larger than each per-worker table (2^18 slots   *)
(* against 2^14 slots), so that folding worker tables whose stations fit   *)
(* them, with a total below the merge capacity, never finds the merge      *)
(* table full.                                                             *)
(***************************************************************************)
C18_MergeTableLarger ==
    res # NilRef =>
        /\ res.len = DocMergeBuckets
        /\ \A w \in Workers :
              results[w] # NilRef =>
                  /\ results[w].len = DocWorkerBuckets
                  /\ results[w].len < res.len

(***************************************************************************)
(* findByte: the Go loop of simd_generic.go and the AVX2 routine of the    *)
(* amd64 build.  SI is kept as an index into data; a 32-byte load and      *)
(* compare gives the set of the matching byte positions of the chunk, and  *)
(* TZCNT its least element.                                                *)
(***************************************************************************)
ChunkBytes == 32

RECURSIVE findByte(_, _, _, _)
\* for i := start; i < end; i++ { if data[i] == target { return i } }; return end
findByte(d, start, end, target) ==
    IF start >= end THEN end
    ELSE IF At(d, start) = target THEN start
    ELSE findByte(d, start + 1, end, target)

\* VPCMPEQB, VPMOVMSKB: the bits of the mask, for the 32 bytes at si
matchMask(d, si, target) == {k \in 0..(ChunkBytes - 1) : At(d, si + k) = target}

RECURSIVE scalarLoop(_, _, _, _, _)
\* scalar_loop, entered with dx > 0; end is returned at not_found
scalarLoop(d, si, dx, target, end) ==
    IF At(d, si) = target THEN si
    ELSE IF dx - 1 # 0 THEN scalarLoop(d, si + 1, dx - 1, target, end)
    ELSE end

\* a remainder that is taken to be empty
tailLengthNone(dx) == 0

\* ANDQ $31, DX
tailLength(dx) == dx % ChunkBytes

\* check_remainder
checkRemainder(d, si, dx, target, end) ==
    IF tailLength(dx) = 0 THEN end
    ELSE scalarLoop(d, si, tailLength(dx), target, end)

RECURSIVE simdLoop(_, _, _, _, _, _)
\* simd_loop, entered with r8 > 0 chunks to go
simdLoop(d, si, r8, dx, target, end) ==
    IF matchMask(d, si, target) # {} THEN si + Least(matchMask(d, si, target))
    ELSE IF r8 - 1 # 0 THEN simdLoop(d, si + ChunkBytes, r8 - 1, dx, target, end)
    ELSE checkRemainder(d, si + ChunkBytes, dx, target, end)

findByteAVX2(d, start, end, target) ==
    IF start >= end THEN end
    ELSE IF (end - start) \div ChunkBytes = 0
    THEN checkRemainder(d, start, end - start, target, end)
    ELSE simdLoop(d, start, (end - start) \div ChunkBytes, end - start, target, end)

MaxTail == 3

\* two chunks and a tail
BufLen == 2 * ChunkBytes + MaxTail

\* where the buffer holds the target: nowhere, at one place, at two adjacent
\* places, or at two places one chunk apart
MarkSets ==
    {{}} \cup {{p} : p \in 0..(BufLen - 1)}
         \cup {{p, p + 1} : p \in 0..(BufLen - 2)}
         \cup {{p, p + ChunkBytes} : p \in 0..(BufLen - 1 - ChunkBytes)}

\* the target at the marks, "A" elsewhere
BufferOf(marks, target) ==
    [k \in 1..BufLen |-> IF (k - 1) \in marks THEN target ELSE 65]

FindInit ==
    /\ PipelineIdle
    /\ dec = NoDec
    /\ agg = NoAgg
    /\ tbl = NoTbl
    /\ \E marks \in MarkSets, target \in {Newline, Semicolon},
          start \in 0..MaxTail, end \in 0..BufLen :
          /\ start <= end
          /\ fb = [buf |-> BufferOf(marks, target), start |-> start, end |-> end,
                   target |-> target, scalar |-> NilRef, simd |-> NilRef]

\* the call in the build without AVX2
FindScalar ==
    /\ fb.scalar = NilRef
    /\ fb' = [fb EXCEPT !.scalar = <<findByte(fb.buf, fb.start, fb.end, fb.target)>>]
    /\ PipelineUnchanged
    /\ UNCHANGED <<dec, agg, tbl>>

\* the call in the amd64 build
FindVector ==
    /\ fb.simd = NilRef
    /\ fb' = [fb EXCEPT !.simd = <<findByteAVX2(fb.buf, fb.start, fb.end, fb.target)>>]
    /\ PipelineUnchanged
    /\ UNCHANGED <<dec, agg, tbl>>

FindNext == FindScalar \/ FindVector

SpecFind == FindInit /\ [][FindNext]_vars

\* the positions of buffer[start..end) that hold the target
Matches == {i \in fb.start..(fb.end - 1) : At(fb.buf, i) = fb.target}

\* r is what the contract of find_byte asks for
MeetsContract(r) ==
    /\ fb.start <= r
    /\ r <= fb.end
    /\ r = fb.end <=> Matches = {}
    /\ r # fb.end => /\ At(fb.buf, r) = fb.target
                     /\ \A i \in fb.start..(r - 1) : At(fb.buf, i) # fb.target

(***************************************************************************)
(* C19: for every buffer, target byte and 0 <= start <= end <= len(buffer) *)
(* findByte, in the scalar and in the 32-bytes-per-step implementation     *)
(* alike, returns r with start <= r <= end, r = end if and only if no byte *)
(* of buffer[start..end) equals the target, and otherwise the first index  *)
(* that holds it; the two return the same value, also for a match in the   *)
(* tail of fewer than 32 bytes.                                            *)
(***************************************************************************)
C19_FindByteAgree ==
    /\ fb.scalar # NilRef => MeetsContract(fb.scalar[1])
    /\ fb.simd # NilRef => MeetsContract(fb.simd[1])
    /\ (fb.scalar # NilRef /\ fb.simd # NilRef) => fb.scalar = fb.simd

\* both have found the first of two matches in the tail, after two whole
\* chunks without one
C19_Witness ==
    /\ fb.scalar # NilRef
    /\ fb.simd # NilRef
    /\ fb.simd[1] >= fb.start + 2 * ChunkBytes
    /\ fb.simd[1] < fb.end
    /\ Cardinality(Matches) = 2

====
